---- MODULE Spec2Model ----
(***************************************************************************)
(* Model of llama_stack/providers/utils/telemetry/trace_protocol.py:       *)
(* the value serializer (serialize_value), the class decorator             *)
(* trace_protocol with its __init_subclass__ hook, and the three traced    *)
(* wrappers (sync_wrapper, async_wrapper, async_gen_wrapper) that          *)
(* trace_method installs.                                                  *)
(***************************************************************************)
EXTENDS Integers, Sequences, FiniteSets, TLC

VARIABLES
    bound,      \* original_init_subclass captured by trace_protocol (line 129)
    classes,    \* the declared classes: name, base class, class __dict__
    funcs,      \* the heap of function objects (plain functions and wrappers)
    hookCalls,  \* calls received by the hook the base type had before binding
    calls,      \* the invocations: one record per call of a method
    spans       \* the spans the tracing backend was asked to open

vars == <<bound, classes, funcs, hookCalls, calls, spans>>

(***************************************************************************)
(* Python values.  Every value is a record of one shape: its type t, a     *)
(* text payload s, a numeric payload n and, for containers, its items.     *)
(* A dict (and a model's field map) is a sequence of entries [k, v] with   *)
(* distinct keys, in insertion order.                                      *)
(***************************************************************************)
PyVal(t, s, n, items) == [t |-> t, s |-> s, n |-> n, items |-> items]

PyNone == PyVal("NoneType", "", 0, <<>>)

PyBool(b) == PyVal("bool", "", IF b THEN 1 ELSE 0, <<>>)

PyInt(n) == PyVal("int", "", n, <<>>)

PyStr(s) == PyVal("str", s, 0, <<>>)

PyList(items) == PyVal("list", "", 0, items)

PyTuple(items) == PyVal("tuple", "", 0, items)

PySet(items) == PyVal("set", "", 0, items)

PyDict(entries) == PyVal("dict", "", 0, entries)

PyModel(fields) == PyVal("BaseModel", "", 0, fields)

PyUUID(s) == PyVal("UUID", s, 0, <<>>)

PyDatetime(s) == PyVal("datetime", s, 0, <<>>)

PyObject(s) == PyVal("object", s, 0, <<>>)

\* l = []; l.append(l): a list that is its own only item
PySelfRefList == PyVal("list", "<self>", 0, <<>>)

Entry(k, v) == [k |-> k, v |-> v]

\* d[k] = v on a dict's entries: an existing key keeps its place, last write wins
DictSet(entries, k, v) ==
    IF \E i \in DOMAIN entries : entries[i].k = k
    THEN [i \in DOMAIN entries |->
            IF entries[i].k = k THEN Entry(k, v) ELSE entries[i]]
    ELSE Append(entries, Entry(k, v))

DictHas(entries, k) == \E i \in DOMAIN entries : entries[i].k = k

DictGet(entries, k) ==
    (CHOOSE e \in {entries[i] : i \in DOMAIN entries} : e.k = k).v

\* str(n) for the integers of the model
IntText(n) ==
    CASE n = 0 -> "0"
      [] n = 1 -> "1"
      [] n = 2 -> "2"
      [] n = 3 -> "3"
      [] n = 4 -> "4"
      [] OTHER -> "5"

\* str(value) of a value that is no container
str(value) ==
    CASE value.t = "str" -> value
      [] value.t = "int" -> PyStr(IntText(value.n))
      [] value.t = "bool" -> PyStr(IF value.n = 1 THEN "True" ELSE "False")
      [] value.t = "NoneType" -> PyStr("None")
      [] OTHER -> PyStr(value.s)

\* str(d) of a dict: the text rendering of its entries, in order
StrOfDict(entries) == PyVal("str", "<dict>", 0, entries)

(***************************************************************************)
(* Exceptions.  An exception object has an identity (id), a class and a    *)
(* message; str(e) is its message.  CancelledError, KeyboardInterrupt,     *)
(* SystemExit and GeneratorExit derive from BaseException only.            *)
(***************************************************************************)
Exc(id, cls, msg) == [id |-> id, cls |-> cls, msg |-> msg]

NoExc == Exc(0, "", "")

IsException(e) == e.cls \notin {"", "CancelledError", "GeneratorExit"}

\* the RecursionError CPython raises when a recursion never bottoms out
RecursionError == Exc(90, "RecursionError", "maximum recursion depth exceeded")

\* the ValueError pydantic raises on a circular reference
CircularError == Exc(91, "ValueError", "Circular reference detected")

Returned(v) == [raised |-> FALSE, value |-> v, exc |-> NoExc]

Raised(e) == [raised |-> TRUE, value |-> PyNone, exc |-> e]

(***************************************************************************)
(* serialize_value, lines 19-34.  The result is Returned(json value) or    *)
(* Raised(error): the code has no guard, so an error of a recursive call   *)
(* leaves the comprehension it was made in.                                *)
(***************************************************************************)
RECURSIVE HasSelfRef(_)
HasSelfRef(value) ==
    \/ value = PySelfRefList
    \/ /\ value.t \in {"list", "tuple", "set"}
       /\ \E i \in DOMAIN value.items : HasSelfRef(value.items[i])
    \/ /\ value.t \in {"dict", "BaseModel"}
       /\ \E i \in DOMAIN value.items : HasSelfRef(value.items[i].v)

\* BaseModel.model_dump() in python mode: nested models become dicts, inside
\* containers too; every other value (datetime, UUID, set, object) is kept as is
RECURSIVE dump(_)
dump(value) ==
    IF value.t = "BaseModel"
    THEN PyDict([i \in DOMAIN value.items |->
                    Entry(value.items[i].k, dump(value.items[i].v))])
    ELSE IF value.t \in {"list", "tuple", "set"} /\ value # PySelfRefList
    THEN [value EXCEPT !.items = [i \in DOMAIN value.items |-> dump(value.items[i])]]
    ELSE IF value.t = "dict"
    THEN [value EXCEPT !.items = [i \in DOMAIN value.items |->
                    Entry(value.items[i].k, dump(value.items[i].v))]]
    ELSE value

model_dump(value) ==
    IF HasSelfRef(value) THEN Raised(CircularError) ELSE Returned(dump(value))

RECURSIVE serialize_value(_)
RECURSIVE serialize_items(_, _)
RECURSIVE serialize_entries(_, _)

\* [serialize_value(item) for item in value]
serialize_items(items, acc) ==
    IF items = <<>> THEN Returned(PyList(acc))
    ELSE LET r == serialize_value(Head(items))
         IN IF r.raised THEN r
            ELSE serialize_items(Tail(items), Append(acc, r.value))

\* {str(k): serialize_value(v) for k, v in value.items()}
serialize_entries(entries, acc) ==
    IF entries = <<>> THEN Returned(PyDict(acc))
    ELSE LET r == serialize_value(Head(entries).v)
         IN IF r.raised THEN r
            ELSE serialize_entries(Tail(entries),
                                   DictSet(acc, str(Head(entries).k), r.value))

serialize_value(value) ==
    IF value.t = "NoneType" THEN Returned(PyNone)
    ELSE IF value.t \in {"str", "int", "float", "bool"} THEN Returned(value)
    ELSE IF value.t = "BaseModel" THEN model_dump(value)
    ELSE IF value.t \in {"list", "tuple", "set"}
    THEN IF value = PySelfRefList THEN Raised(RecursionError)
         ELSE serialize_items(value.items, <<>>)
    ELSE IF value.t = "dict" THEN serialize_entries(value.items, <<>>)
    ELSE IF value.t \in {"datetime", "UUID"} THEN Returned(str(value))
    ELSE Returned(str(value))

(***************************************************************************)
(* Function objects and classes.  A function object is a plain function    *)
(* (code "def", "async def", "async gen def"; method = 0) or a wrapper     *)
(* made by trace_method, which closes over method, is_async and            *)
(* is_async_gen and which @wraps gives the method's __name__.  params are  *)
(* the parameter names of the signature after self.  A class has a name,   *)
(* a base class (0 for the bound base type), its own __dict__ (a sequence  *)
(* of entries [k |-> name, v |-> member]), whether it defines an           *)
(* __init_subclass__ of its own (hook) and the keyword arguments of its    *)
(* class statement.                                                        *)
(***************************************************************************)
Function(name, code, params) ==
    [name |-> name, code |-> code, params |-> params, method |-> 0,
     is_async |-> FALSE, is_async_gen |-> FALSE]

Member(type, fn) == [type |-> type, fn |-> fn]

\* asyncio.iscoroutinefunction(f)
iscoroutinefunction(f) == f.code \in {"async def", "async_wrapper"}

\* inspect.isasyncgenfunction(f)
isasyncgenfunction(f) == f.code \in {"async gen def", "async_gen_wrapper"}

\* inspect.isfunction(member): a staticmethod or classmethod object is none
isfunction(member) == member.type = "function"

IsWrapper(f) == f.method # 0

\* the characters of the method names the model uses
Chars(name) ==
    CASE name = "run" -> <<"r", "u", "n">>
      [] name = "fetch" -> <<"f", "e", "t", "c", "h">>
      [] name = "stream" -> <<"s", "t", "r", "e", "a", "m">>
      [] name = "_helper" -> <<"_", "h", "e", "l", "p", "e", "r">>
      [] name = "do_it" -> <<"d", "o", "_", "i", "t">>
      [] OTHER -> <<"x">>

\* name.endswith(prefix): the test a slip would put in the place of startswith
MutEndswith(name, prefix) == Chars(name)[Len(Chars(name))] = prefix

\* name.startswith(prefix), for a prefix of one character
startswith(name, prefix) == Chars(name)[1] = prefix

ClassName(c) ==
    CASE c = 1 -> "A"
      [] c = 2 -> "B"
      [] c = 3 -> "C"
      [] c = 4 -> "D"
      [] OTHER -> "E"

\* a trace_method that returns sync_wrapper whatever the method is
MutTraceMethodSyncOnly(m, method) ==
    [name |-> method.name, code |-> "sync_wrapper", params |-> method.params,
     method |-> m, is_async |-> FALSE, is_async_gen |-> FALSE]

(***************************************************************************)
(* trace_method, lines 43-127: the wrapper for a method, chosen by the     *)
(* calling convention detected once, here.                                 *)
(***************************************************************************)
trace_method(m, method) ==
    LET is_async == iscoroutinefunction(method)
        is_async_gen == isasyncgenfunction(method)
    IN [name |-> method.name,
        code |-> IF is_async_gen THEN "async_gen_wrapper"
                 ELSE IF is_async THEN "async_wrapper"
                 ELSE "sync_wrapper",
        params |-> method.params,
        method |-> m,
        is_async |-> is_async,
        is_async_gen |-> is_async_gen]

(***************************************************************************)
(* The hook trace_protocol installs, lines 131-137, run by the class       *)
(* statement of every subclass with cls_child the new class.  st holds     *)
(* the classes, the function heap and the calls the prior hook received.   *)
(***************************************************************************)
Class(name, base, dict, hook, kwargs) ==
    [name |-> name, base |-> base, dict |-> dict, hook |-> hook, kwargs |-> kwargs]

HookCall(cls, kwargs, child, wrapped) ==
    [cls |-> cls, kwargs |-> kwargs, child |-> child, wrapped |-> wrapped]

WrappersIn(dict, fs) ==
    Cardinality({i \in DOMAIN dict : IsWrapper(fs[dict[i].v.fn])})

\* for name, method in vars(cls_child).items(): ... setattr(cls_child, name, ...)
RECURSIVE wrap_members(_, _, _)
wrap_members(dict, fs, i) ==
    IF i > Len(dict) THEN [dict |-> dict, funcs |-> fs]
    ELSE IF isfunction(dict[i].v) /\ ~startswith(dict[i].k, "_")
    THEN wrap_members(
            [dict EXCEPT ![i] = Entry(dict[i].k, Member("function", Len(fs) + 1))],
            Append(fs, trace_method(dict[i].v.fn, fs[dict[i].v.fn])),
            i + 1)
    ELSE wrap_members(dict, fs, i + 1)

\* original_init_subclass(**kwargs): the bound method captured at line 129
\* is bound to the class it was read from, and that class is its cls
call_original(original, hc, kwargs, cls_child, dict, fs) ==
    IF original.custom
    THEN Append(hc, HookCall(original.im_self, kwargs, cls_child, WrappersIn(dict, fs)))
    ELSE hc

\* a hook that also walks the __dict__ of the new class's base
MutInitSubclassWalksBase(st, original, cls_child, kwargs) ==
    LET dict == st.classes[cls_child].dict
        hc == call_original(original, st.hookCalls, kwargs, cls_child, dict, st.funcs)
        w == wrap_members(dict, st.funcs, 1)
        base == st.classes[cls_child].base
        wb == wrap_members(st.classes[base].dict, w.funcs, 1)
    IN [classes |-> [st.classes EXCEPT ![cls_child].dict = w.dict,
                                       ![base].dict = wb.dict],
        funcs |-> wb.funcs,
        hookCalls |-> hc]

init_subclass(st, original, cls_child, kwargs) ==
    LET dict == st.classes[cls_child].dict
        hc == call_original(original, st.hookCalls, kwargs, cls_child, dict, st.funcs)
        w == wrap_members(dict, st.funcs, 1)
    IN [classes |-> [st.classes EXCEPT ![cls_child].dict = w.dict],
        funcs |-> w.funcs,
        hookCalls |-> hc]

(***************************************************************************)
(* A class statement "class <name>(<parent>, **kwargs): <body>": the body  *)
(* defines its functions, the class is created with them in its __dict__,  *)
(* and type.__new__ runs the __init_subclass__ found on the parent, which  *)
(* is the hook above once trace_protocol ran.  body is a sequence of       *)
(* declarations [name, type, code, params] with distinct names.            *)
(***************************************************************************)
Decl(name, type, code, params) ==
    [name |-> name, type |-> type, code |-> code, params |-> params]

class_statement(st, original, parent, body, kwargs) ==
    LET cls_child == Len(st.classes) + 1
        fs == st.funcs \o [i \in DOMAIN body |->
                    Function(body[i].name, body[i].code, body[i].params)]
        dict == [i \in DOMAIN body |->
                    Entry(body[i].name, Member(body[i].type, Len(st.funcs) + i))]
        created == [classes |-> Append(st.classes,
                                   Class(ClassName(cls_child), parent, dict, FALSE, kwargs)),
                    funcs |-> fs,
                    hookCalls |-> st.hookCalls]
    IN init_subclass(created, original, cls_child, kwargs)

\* attribute lookup of name on class c along its bases: the member, or the
\* member of type "missing"
RECURSIVE getattr(_, _, _)
getattr(cs, c, name) ==
    IF c = 0 THEN Member("missing", 0)
    ELSE IF DictHas(cs[c].dict, name) THEN DictGet(cs[c].dict, name)
    ELSE getattr(cs, cs[c].base, name)

(***************************************************************************)
(* create_span_context, lines 49-74.  args are the positional arguments    *)
(* after self, kwargs the named ones, a sequence of entries [k, v] whose   *)
(* keys are distinct texts.                                                *)
(***************************************************************************)
\* f"position_{i+1}", with n = i + 1
PositionName(n) ==
    CASE n = 1 -> "position_1"
      [] n = 2 -> "position_2"
      [] n = 3 -> "position_3"
      [] n = 4 -> "position_4"
      [] OTHER -> "position_5"

\* for i, arg in enumerate(args): ... (lines 58-62), from the 0-based index i on
RECURSIVE positional_args(_, _, _, _)
positional_args(param_names, args, i, combined_args) ==
    IF i >= Len(args) THEN Returned(PyDict(combined_args))
    ELSE LET param_name == IF i < Len(param_names) THEN param_names[i + 1]
                           ELSE PositionName(i + 1)
             r == serialize_value(args[i + 1])
         IN IF r.raised THEN r
            ELSE positional_args(param_names, args, i + 1,
                                 DictSet(combined_args, PyStr(param_name), r.value))

\* a loop over kwargs that stores the values as they are
RECURSIVE MutNamedArgsRaw(_, _)
MutNamedArgsRaw(kwargs, combined_args) ==
    IF kwargs = <<>> THEN Returned(PyDict(combined_args))
    ELSE MutNamedArgsRaw(Tail(kwargs),
                         DictSet(combined_args, PyStr(Head(kwargs).k), Head(kwargs).v))

\* for k, v in kwargs.items(): combined_args[str(k)] = serialize_value(v)
RECURSIVE named_args(_, _)
named_args(kwargs, combined_args) ==
    IF kwargs = <<>> THEN Returned(PyDict(combined_args))
    ELSE LET r == serialize_value(Head(kwargs).v)
         IN IF r.raised THEN r
            ELSE named_args(Tail(kwargs),
                            DictSet(combined_args, str(PyStr(Head(kwargs).k)), r.value))

create_span_context(class_name, w, method, args, kwargs) ==
    LET method_name == method.name
        span_type == IF w.is_async_gen THEN "async_generator"
                     ELSE IF w.is_async THEN "async" ELSE "sync"
        param_names == method.params
        pos == positional_args(param_names, args, 0, <<>>)
        all == IF pos.raised THEN pos ELSE named_args(kwargs, pos.value.items)
        combined_args == all.value.items
    IN [raised |-> all.raised,
        exc |-> all.exc,
        class_name |-> class_name,
        method_name |-> method_name,
        combined_args |-> combined_args,
        span_attributes |->
            << Entry(PyStr("__autotraced__"), PyBool(TRUE)),
               Entry(PyStr("__class__"), PyStr(class_name)),
               Entry(PyStr("__method__"), PyStr(method_name)),
               Entry(PyStr("__type__"), PyStr(span_type)),
               Entry(PyStr("__args__"), StrOfDict(combined_args)) >>]

(***************************************************************************)
(* The tracing backend, as the wrappers use it: tracing.span(name,         *)
(* attributes) opens a span, span.set_attribute(key, value) writes one     *)
(* attribute, and leaving the with block closes the span.  A span keeps    *)
(* the events it has seen, in order.  A backend operation may fail: faults *)
(* names the operations that do ("open", or the key of an attribute whose  *)
(* write fails); a failed write raises and changes no attribute.           *)
(***************************************************************************)
Event(op, key) == [op |-> op, key |-> key]

\* the error the backend raises when the operation op fails
BackendError(op) ==
    Exc(CASE op = "open" -> 81
          [] op = "output" -> 82
          [] op = "error" -> 83
          [] OTHER -> 84,
        "RuntimeError", "backend failure")

\* f"{class_name}.{method_name}"
SpanName(class_name, method_name) == [cls |-> class_name, meth |-> method_name]

tracing_span(name, attributes, owner) ==
    [name |-> name, attributes |-> attributes, owner |-> owner,
     events |-> <<Event("open", "")>>, faults |-> {}]

\* span.set_attribute(key, value) raises
SetFails(span, key) == key \in span.faults

set_attribute(span, key, value) ==
    IF SetFails(span, key)
    THEN [span EXCEPT !.events = Append(@, Event("fail", key))]
    ELSE [span EXCEPT !.attributes = DictSet(@, PyStr(key), value),
                      !.events = Append(@, Event("set", key))]

span_exit(span) == [span EXCEPT !.events = Append(@, Event("close", ""))]

Count(events, op) == Cardinality({i \in DOMAIN events : events[i].op = op})

IsClosed(span) == Count(span.events, "close") > 0

HasAttr(span, key) == DictHas(span.attributes, PyStr(key))

Attr(span, key) == DictGet(span.attributes, PyStr(key))

(***************************************************************************)
(* Invocations.  A call record holds the receiver's class, the function    *)
(* object called, the arguments, where the call stands (pc), the span the  *)
(* wrapper opened (0: none), the wrapper's local count, the items the      *)
(* underlying generator yielded and the consumer received, what the        *)
(* original method did (orig) and what the caller observed (result).       *)
(***************************************************************************)
Outcome(t, v, e) == [t |-> t, v |-> v, e |-> e]

Pending == Outcome("pending", PyNone, NoExc)

Return(v) == Outcome("return", v, NoExc)

Raise(e) == Outcome("raise", PyNone, e)

\* StopAsyncIteration: the stream is exhausted
Stop == Outcome("stop", PyNone, NoExc)

\* aclose() returned: the consumer closed the stream
Closed == Outcome("closed", PyNone, NoExc)

NewCall(cls, fn, args, kwargs, pc) ==
    [cls |-> cls, fn |-> fn, args |-> args, kwargs |-> kwargs, pc |-> pc,
     span |-> 0, count |-> 0, yielded |-> <<>>, received |-> <<>>,
     orig |-> Pending, result |-> Pending, faults |-> {}]

Step(call, sps) == [call |-> call, spans |-> sps]

\* a with block that releases the span on a return only
MutExitOnReturnOnly(span, how) == IF how = "return" THEN span_exit(span) ELSE span

\* a re-raise that wraps the error in a new one
MutRaiseWrapped(e) == Exc(99, "RuntimeError", e.msg)

\* an except clause that records nothing
MutExceptSilent(span, e) == span

\* a resumption that forgets to count the item
MutCountUnchanged(count) == count

\* a finally block that records one item more than were counted
MutChunkCountPlusOne(span, count) ==
    set_attribute(span, "chunk_count", PyInt(count + 1))

\* leaving "with tracing.span(...) as span:" (lines 84, 99, 114) by a return
\* or an exception (how): the context manager closes the span either way
with_exit(span, how) == span_exit(span)

\* "raise" in an except clause (lines 106, 120), and an exception that leaves
\* a try block no clause catches: the exception object itself goes on
reraise(e) == e

\* "return result" (lines 103, 118)
return_result(result) == result

\* a write of output that also writes an empty error
MutSetOutputAndError(span, result) ==
    LET r == serialize_value(result)
    IN [raised |-> r.raised, exc |-> r.exc,
        span |-> IF r.raised THEN span
                 ELSE set_attribute(set_attribute(span, "output", r.value),
                                    "error", PyStr(""))]

\* lines 102 and 117: span.set_attribute("output", serialize_value(result))
set_output(span, result) ==
    LET r == serialize_value(result)
    IN IF r.raised THEN [raised |-> TRUE, exc |-> r.exc, span |-> span]
       ELSE [raised |-> SetFails(span, "output"),
             exc |-> IF SetFails(span, "output") THEN BackendError("output") ELSE NoExc,
             span |-> set_attribute(span, "output", r.value)]

\* lines 104-105: except Exception as e: span.set_attribute("error", str(e))
except_Exception(span, e) ==
    IF IsException(e) THEN set_attribute(span, "error", PyStr(e.msg)) ELSE span

\* line 91: finally: span.set_attribute("chunk_count", count)
finally_chunk_count(span, count) == set_attribute(span, "chunk_count", PyInt(count))

\* line 89: count += 1, run when the consumer resumes the wrapper after a yield
count_after_yield(count) == count + 1

\* a wrapper that keeps its span in a variable shared by the wrappers: the
\* first invocation opens it and every later one uses it too
MutEnterSharedSpan(call, id, cs, fs, sps, pc) ==
    LET w == fs[call.fn]
        ctx == create_span_context(cs[call.cls].name, w, fs[w.method],
                                   call.args, call.kwargs)
    IN IF ctx.raised
       THEN Step([call EXCEPT !.pc = "done", !.result = Raise(ctx.exc)], sps)
       ELSE IF Len(sps) > 0
       THEN Step([call EXCEPT !.pc = pc, !.span = 1], sps)
       ELSE Step([call EXCEPT !.pc = pc, !.span = 1],
                 <<tracing_span(SpanName(ctx.class_name, ctx.method_name),
                                ctx.span_attributes, id)>>)

(***************************************************************************)
(* The first part of every wrapper: create_span_context, then              *)
(* tracing.span(...).__enter__.  An error of create_span_context leaves    *)
(* the wrapper before any span is opened and before the method is called,  *)
(* and so does an error of tracing.span.                                   *)
(***************************************************************************)
wrapper_enter(call, id, cs, fs, sps, pc) ==
    LET w == fs[call.fn]
        ctx == create_span_context(cs[call.cls].name, w, fs[w.method],
                                   call.args, call.kwargs)
    IN IF ctx.raised
       THEN Step([call EXCEPT !.pc = "done", !.result = Raise(ctx.exc)], sps)
       ELSE IF "open" \in call.faults
       THEN Step([call EXCEPT !.pc = "done", !.result = Raise(BackendError("open"))],
                 sps)
       ELSE Step([call EXCEPT !.pc = pc, !.span = Len(sps) + 1],
                 Append(sps,
                        [tracing_span(SpanName(ctx.class_name, ctx.method_name),
                                      ctx.span_attributes, id)
                            EXCEPT !.faults = call.faults]))

\* lines 100-106 and 115-120 once the method has returned or raised (beh); the
\* synchronous wrapper's except clause records nothing.  An error raised in
\* the try block by serialize_value or set_attribute is handled like one of
\* the method; an error raised by set_attribute in the except clause leaves
\* the wrapper in the place of the one being handled
wrapper_finish(call, sps, beh, records_error) ==
    LET span == sps[call.span]
        out == set_output(span, beh.v)
    IN IF beh.t = "return" /\ ~out.raised
       THEN Step([call EXCEPT !.pc = "done", !.orig = beh,
                              !.result = Return(return_result(beh.v))],
                 [sps EXCEPT ![call.span] = with_exit(out.span, "return")])
       ELSE LET e == IF beh.t = "return" THEN out.exc ELSE beh.e
                tried == IF beh.t = "return" THEN out.span ELSE span
                sp == IF records_error THEN except_Exception(tried, e) ELSE tried
                handler_fails == records_error /\ IsException(e)
                                    /\ SetFails(tried, "error")
            IN Step([call EXCEPT !.pc = "done", !.orig = beh,
                                 !.result = IF handler_fails
                                            THEN Raise(BackendError("error"))
                                            ELSE Raise(reraise(e))],
                    [sps EXCEPT ![call.span] = with_exit(sp, "raise")])

\* sync_wrapper, lines 108-120: the whole call, which never suspends
sync_wrapper(call, id, cs, fs, sps, beh) ==
    LET entered == wrapper_enter(call, id, cs, fs, sps, "running")
    IN IF entered.call.pc = "done" THEN entered
       ELSE wrapper_finish(entered.call, entered.spans, beh, FALSE)

\* async_wrapper, lines 93-101, up to the await of the method
async_wrapper_start(call, id, cs, fs, sps) ==
    wrapper_enter(call, id, cs, fs, sps, "awaiting")

\* async_wrapper, lines 101-106, from the await on
async_wrapper_resume(call, sps, beh) == wrapper_finish(call, sps, beh, TRUE)

\* async_gen_wrapper, lines 77-87, run by the consumer's __anext__(): the first
\* one opens the span and sets count = 0, a later one resumes after the yield
\* (count += 1); both then ask the underlying generator for its next item
async_gen_wrapper_next(call, id, cs, fs, sps) ==
    IF call.pc = "created"
    THEN wrapper_enter(call, id, cs, fs, sps, "pulling")
    ELSE Step([call EXCEPT !.pc = "pulling", !.count = count_after_yield(@)], sps)

\* a streaming wrapper that yields the serialized form of each item
MutYieldSerialized(call, sps, out) ==
    IF out.t = "return"
    THEN Step([call EXCEPT !.pc = "suspended",
                           !.yielded = Append(@, out.v),
                           !.received = Append(@, serialize_value(out.v))], sps)
    ELSE LET span == finally_chunk_count(sps[call.span], call.count)
         IN Step([call EXCEPT !.pc = "done", !.orig = out,
                              !.result = IF SetFails(sps[call.span], "chunk_count")
                                         THEN Raise(BackendError("chunk_count"))
                                         ELSE IF out.t = "stop" THEN Stop
                                         ELSE Raise(reraise(out.e))],
                 [sps EXCEPT ![call.span] =
                     with_exit(span, IF out.t = "stop" THEN "return" ELSE "raise")])

\* async_gen_wrapper, lines 87-91: the underlying generator answers with an
\* item (yielded on to the consumer), its end, or an error
async_gen_wrapper_item(call, sps, out) ==
    IF out.t = "return"
    THEN Step([call EXCEPT !.pc = "suspended",
                           !.yielded = Append(@, out.v),
                           !.received = Append(@, out.v)], sps)
    ELSE LET span == finally_chunk_count(sps[call.span], call.count)
         IN Step([call EXCEPT !.pc = "done", !.orig = out,
                              !.result = IF SetFails(sps[call.span], "chunk_count")
                                         THEN Raise(BackendError("chunk_count"))
                                         ELSE IF out.t = "stop" THEN Stop
                                         ELSE Raise(reraise(out.e))],
                 [sps EXCEPT ![call.span] =
                     with_exit(span, IF out.t = "stop" THEN "return" ELSE "raise")])

\* a close that drops an error raised in the finally block
MutCloseSwallowsError(call, sps) ==
    IF call.pc = "created"
    THEN Step([call EXCEPT !.pc = "done", !.result = Closed], sps)
    ELSE Step([call EXCEPT !.pc = "done", !.result = Closed],
              [sps EXCEPT ![call.span] =
                  with_exit(finally_chunk_count(sps[call.span], call.count), "raise")])

\* aclose() by the consumer: a generator never started just ends; one suspended
\* at "yield item" (line 88) gets GeneratorExit there, before count += 1, runs
\* the finally block and leaves the with block.  An error of set_attribute in
\* the finally block (here and above) takes the place of what was under way
async_gen_wrapper_close(call, sps) ==
    IF call.pc = "created"
    THEN Step([call EXCEPT !.pc = "done", !.result = Closed], sps)
    ELSE LET span == finally_chunk_count(sps[call.span], call.count)
         IN Step([call EXCEPT !.pc = "done",
                              !.result = IF SetFails(sps[call.span], "chunk_count")
                                         THEN Raise(BackendError("chunk_count"))
                                         ELSE Closed],
                 [sps EXCEPT ![call.span] = with_exit(span, "raise")])

(***************************************************************************)
(* Bounds and the inputs the actions draw from.                            *)
(***************************************************************************)
\* invocations in one run of the wrappers' specification
MaxCalls == 2

\* items one underlying stream yields at most
MaxItems == 2

\* subclasses declared in one run of the binder's specification
MaxSubclasses == 2

\* invocations in one run of the binder's and the argument mapping's specifications
MaxProbes == 1

NotFound == Exc(1, "ValueError", "not found")

Cancelled == Exc(2, "CancelledError", "")

OrigErrors == {NotFound, Cancelled}

ResultValues == {PyTuple(<<PyInt(5)>>), PySelfRefList}

ItemValues == {PyStr("chunk")}

Results == {Return(v) : v \in ResultValues} \cup {Raise(e) : e \in OrigErrors}

StreamOutputs ==
    {Return(v) : v \in ItemValues} \cup {Stop} \cup {Raise(e) : e \in OrigErrors}

Arguments(args, kwargs) == [args |-> args, kwargs |-> kwargs]

NoArguments == Arguments(<<>>, <<>>)

\* the argument lists of the wrappers' specification
CallInputs ==
    { Arguments(<<PyInt(2)>>, <<Entry("b", PyTuple(<<PyInt(3)>>))>>),
      Arguments(<<PySelfRefList>>, <<>>) }

\* the argument lists of the argument mapping's specification
ArgValues == {PyInt(2), PySet(<<PyInt(3)>>)}

KwargLists ==
    { <<>>,
      <<Entry("a", PyInt(7))>>,
      <<Entry("b", PyInt(7))>>,
      <<Entry("position_3", PyInt(7))>>,
      <<Entry("b", PyInt(7)), Entry("c", PyUUID("u-1"))>> }

ArgLists == UNION {[1..n -> ArgValues] : n \in 0..3}

\* the calls the methods of SignatureBody accept: a, the one parameter that
\* is not variadic, is given by position or by name, not both (anything else
\* is a TypeError of the original method, line 116)
ArgInputs ==
    {in \in {Arguments(a, k) : a \in ArgLists, k \in KwargLists} :
        Len(in.args) = 0 \/ \A j \in DOMAIN in.kwargs : in.kwargs[j].k # "a"}

\* the class bodies of the binder's specification
Bodies ==
    { << Decl("run", "function", "def", <<"a", "b">>),
         Decl("_helper", "function", "def", <<>>) >>,
      << Decl("fetch", "function", "async def", <<"a">>),
         Decl("do_it", "staticmethod", "def", <<>>) >>,
      << Decl("stream", "function", "async gen def", <<"a">>) >> }

ClassKwargs == {<<>>, <<Entry("tag", PyInt(1))>>}

\* the class body of the wrappers' specification: one method of each calling
\* convention and an internal one
ServiceBody ==
    << Decl("run", "function", "def", <<"a", "b">>),
       Decl("fetch", "function", "async def", <<"a", "b">>),
       Decl("stream", "function", "async gen def", <<"a", "b">>),
       Decl("_helper", "function", "def", <<"a", "b">>) >>

\* the class body of the argument mapping's specification:
\*   def run(self, a=0, *b, **kw)   and   def do_it(self, *args, **kw)
\* line 56 keeps the names of the parameters after self, of whatever kind
SignatureBody ==
    << Decl("run", "function", "def", <<"a", "b", "kw">>),
       Decl("do_it", "function", "def", <<"args", "kw">>) >>

MethodNames == {"run", "fetch", "stream", "_helper", "do_it"}

(***************************************************************************)
(* trace_protocol, lines 37-141: it keeps the __init_subclass__ the class  *)
(* has (line 129, a method bound to cls) and installs the hook (line 139). *)
(* It wraps nothing of cls itself.                                         *)
(***************************************************************************)
BaseClass(hook) ==
    Class("A", 0, <<Entry("run", Member("function", 1))>>, hook, <<>>)

BaseFuncs == <<Function("run", "def", <<"a", "b">>)>>

Undecorated(hook) ==
    [classes |-> <<BaseClass(hook)>>, funcs |-> BaseFuncs, hookCalls |-> <<>>]

NotBound == [installed |-> FALSE, original |-> [im_self |-> 0, custom |-> FALSE]]

trace_protocol(cs, cls) ==
    [installed |-> TRUE, original |-> [im_self |-> cls, custom |-> cs[cls].hook]]

\* the base type is defined and not yet decorated
InitBind ==
    /\ \E hook \in BOOLEAN :
          /\ classes = Undecorated(hook).classes
          /\ funcs = Undecorated(hook).funcs
    /\ hookCalls = <<>>
    /\ bound = NotBound
    /\ calls = <<>>
    /\ spans = <<>>

\* the module is imported: the base type is decorated and class B(A) is
\* defined with the given body
Imported(hook, body) ==
    LET b == trace_protocol(Undecorated(hook).classes, 1)
        st == class_statement(Undecorated(hook), b.original, 1, body, <<>>)
    IN /\ bound = b
       /\ classes = st.classes
       /\ funcs = st.funcs
       /\ hookCalls = st.hookCalls
       /\ calls = <<>>
       /\ spans = <<>>

Init == Imported(FALSE, ServiceBody)

InitArgs == Imported(FALSE, SignatureBody)

TraceProtocol ==
    /\ ~bound.installed
    /\ bound' = trace_protocol(classes, 1)
    /\ UNCHANGED <<classes, funcs, hookCalls, calls, spans>>

\* object.__init_subclass__ takes no keyword arguments: without a hook of the
\* base type's own, a class statement with keywords raises TypeError and
\* defines nothing
DeclareSubclass(parent, body, kwargs) ==
    /\ bound.installed
    /\ Len(classes) < 1 + MaxSubclasses
    /\ parent \in DOMAIN classes
    /\ bound.original.custom \/ kwargs = <<>>
    /\ LET st == class_statement([classes |-> classes, funcs |-> funcs,
                                  hookCalls |-> hookCalls],
                                 bound.original, parent, body, kwargs)
       IN /\ classes' = st.classes
          /\ funcs' = st.funcs
          /\ hookCalls' = st.hookCalls
    /\ UNCHANGED <<bound, calls, spans>>

(***************************************************************************)
(* Calls.  self is an instance of class c; the method is found by          *)
(* attribute lookup and is a wrapper or, where nothing wrapped it, the     *)
(* function itself.                                                        *)
(***************************************************************************)
Resolves(c, name, codes) ==
    /\ c \in DOMAIN classes
    /\ getattr(classes, c, name).type = "function"
    /\ funcs[getattr(classes, c, name).fn].code \in codes

Apply(i, step) ==
    /\ calls' = (IF i > Len(calls) THEN Append(calls, step.call)
                 ELSE [calls EXCEPT ![i] = step.call])
    /\ spans' = step.spans
    /\ UNCHANGED <<bound, classes, funcs, hookCalls>>

SyncCall(limit, c, name, in, beh) ==
    /\ Len(calls) < limit
    /\ Resolves(c, name, {"sync_wrapper"})
    /\ LET id == Len(calls) + 1
           call == NewCall(c, getattr(classes, c, name).fn, in.args, in.kwargs, "created")
       IN Apply(id, sync_wrapper(call, id, classes, funcs, spans, beh))

AsyncStart(limit, c, name, in) ==
    /\ Len(calls) < limit
    /\ Resolves(c, name, {"async_wrapper"})
    /\ LET id == Len(calls) + 1
           call == NewCall(c, getattr(classes, c, name).fn, in.args, in.kwargs, "created")
       IN Apply(id, async_wrapper_start(call, id, classes, funcs, spans))

AsyncResume(i, beh) ==
    /\ i \in DOMAIN calls
    /\ calls[i].pc = "awaiting"
    /\ Apply(i, async_wrapper_resume(calls[i], spans, beh))

\* calling an async generator function runs none of its code
GenCreate(limit, c, name, in) ==
    /\ Len(calls) < limit
    /\ Resolves(c, name, {"async_gen_wrapper"})
    /\ LET id == Len(calls) + 1
           call == NewCall(c, getattr(classes, c, name).fn, in.args, in.kwargs, "created")
       IN Apply(id, Step(call, spans))

GenNext(i) ==
    /\ i \in DOMAIN calls
    /\ funcs[calls[i].fn].code = "async_gen_wrapper"
    /\ calls[i].pc \in {"created", "suspended"}
    /\ Apply(i, async_gen_wrapper_next(calls[i], i, classes, funcs, spans))

GenItem(i, out) ==
    /\ i \in DOMAIN calls
    /\ calls[i].pc = "pulling"
    /\ out.t = "return" => Len(calls[i].yielded) < MaxItems
    /\ Apply(i, async_gen_wrapper_item(calls[i], spans, out))

GenClose(i) ==
    /\ i \in DOMAIN calls
    /\ funcs[calls[i].fn].code = "async_gen_wrapper"
    /\ calls[i].pc \in {"created", "suspended"}
    /\ Apply(i, async_gen_wrapper_close(calls[i], spans))

\* a call of a function nothing wrapped (lines 135-137 left it in place): the
\* caller gets what the function does, and no wrapper code runs
DirectCall(limit, c, name, in, beh) ==
    /\ Len(calls) < limit
    /\ Resolves(c, name, {"def", "async def", "async gen def"})
    /\ LET id == Len(calls) + 1
           call == NewCall(c, getattr(classes, c, name).fn, in.args, in.kwargs, "done")
       IN Apply(id, Step([call EXCEPT !.orig = beh, !.result = beh], spans))

Next ==
    \/ \E c \in DOMAIN classes, name \in MethodNames, in \in CallInputs, beh \in Results :
          SyncCall(MaxCalls, c, name, in, beh)
    \/ \E c \in DOMAIN classes, name \in MethodNames, in \in CallInputs :
          AsyncStart(MaxCalls, c, name, in)
    \/ \E i \in DOMAIN calls, beh \in Results : AsyncResume(i, beh)
    \/ \E c \in DOMAIN classes, name \in MethodNames, in \in CallInputs :
          GenCreate(MaxCalls, c, name, in)
    \/ \E i \in DOMAIN calls : GenNext(i)
    \/ \E i \in DOMAIN calls, out \in StreamOutputs : GenItem(i, out)
    \/ \E i \in DOMAIN calls : GenClose(i)
    \/ \E c \in DOMAIN classes, name \in MethodNames, beh \in Results :
          DirectCall(MaxCalls, c, name, NoArguments, beh)

Spec == Init /\ [][Next]_vars

NextBind ==
    \/ TraceProtocol
    \/ \E parent \in DOMAIN classes, body \in Bodies, kwargs \in ClassKwargs :
          DeclareSubclass(parent, body, kwargs)
    \/ \E c \in DOMAIN classes, name \in MethodNames :
          SyncCall(MaxProbes, c, name, NoArguments, Return(PyNone))
    \/ \E c \in DOMAIN classes, name \in MethodNames :
          DirectCall(MaxProbes, c, name, NoArguments, Return(PyNone))

SpecBind == InitBind /\ [][NextBind]_vars

NextArgs ==
    \E c \in DOMAIN classes, name \in MethodNames, in \in ArgInputs :
        SyncCall(MaxProbes, c, name, in, Return(PyNone))

SpecArgs == InitArgs /\ [][NextArgs]_vars

(***************************************************************************)
(* Properties of the wrappers.                                             *)
(***************************************************************************)
Code(call) == funcs[call.fn].code

Traced(call) == IsWrapper(funcs[call.fn])

SpanOf(call) == spans[call.span]

\* events[i] is the close of the span
ClosedLast(span) ==
    /\ Count(span.events, "close") = 1
    /\ span.events[Len(span.events)].op = "close"

\* attribute key was written, and before the span was closed
SetBeforeClose(span, key) ==
    \E i, j \in DOMAIN span.events :
        /\ i < j
        /\ span.events[i] = Event("set", key)
        /\ span.events[j].op = "close"

\* C1: the span a wrapper opened is closed exactly once on every exit path:
\* no span is closed twice, every finished invocation that opened a span has
\* closed it, as the span's last event, and no invocation opens two spans.
C1_SpanReleasedOnce ==
    /\ \A k \in DOMAIN spans : Count(spans[k].events, "close") <= 1
    /\ \A i \in DOMAIN calls :
          /\ Cardinality({k \in DOMAIN spans : spans[k].owner = i}) <= 1
          /\ calls[i].span # 0 => spans[calls[i].span].owner = i
          /\ calls[i].pc = "done" /\ calls[i].span # 0 => ClosedLast(SpanOf(calls[i]))

\* a stream the consumer closed early and an invocation that ended in an error
\* have both closed their spans
C1_Witness ==
    \E i, j \in DOMAIN calls :
        /\ calls[i].result = Closed /\ calls[i].span # 0
        /\ IsClosed(SpanOf(calls[i]))
        /\ calls[j].result.t = "raise" /\ calls[j].orig.t = "raise"
        /\ calls[j].span # 0 /\ IsClosed(SpanOf(calls[j]))

\* C2: a stream the consumer closes after consuming k items has chunk_count = k
\* on its span, and the span is closed.
C2_EarlyCloseCountsConsumed ==
    \A i \in DOMAIN calls :
        calls[i].result = Closed /\ calls[i].span # 0 =>
            /\ IsClosed(SpanOf(calls[i]))
            /\ HasAttr(SpanOf(calls[i]), "chunk_count")
            /\ Attr(SpanOf(calls[i]), "chunk_count") = PyInt(Len(calls[i].received))

\* C3: a stream that yields N items and ends normally, iterated to exhaustion,
\* leaves a closed span whose chunk_count is N.
C3_ChunkCountOnExhaustion ==
    \A i \in DOMAIN calls :
        Code(calls[i]) = "async_gen_wrapper" /\ calls[i].result = Stop =>
            /\ calls[i].span # 0
            /\ ClosedLast(SpanOf(calls[i]))
            /\ HasAttr(SpanOf(calls[i]), "chunk_count")
            /\ Attr(SpanOf(calls[i]), "chunk_count") = PyInt(Len(calls[i].yielded))

C3_Witness ==
    \E i \in DOMAIN calls :
        /\ Code(calls[i]) = "async_gen_wrapper" /\ calls[i].result = Stop
        /\ Len(calls[i].yielded) = 2
        /\ Len(calls[i].received) = 2

\* C4: when the original method raises, the caller of the wrapper gets that
\* same error object, after the span's bookkeeping: the span is closed.
C4_ErrorTransparency ==
    \A i \in DOMAIN calls :
        Traced(calls[i]) /\ calls[i].orig.t = "raise" =>
            /\ calls[i].pc = "done"
            /\ calls[i].result = Raise(calls[i].orig.e)
            /\ ClosedLast(SpanOf(calls[i]))

C4_Witness ==
    \E i, j \in DOMAIN calls :
        /\ Code(calls[i]) = "async_gen_wrapper" /\ calls[i].orig = Raise(NotFound)
        /\ Len(calls[i].received) = 1 /\ calls[i].result = Raise(NotFound)
        /\ Code(calls[j]) \in {"sync_wrapper", "async_wrapper"}
        /\ calls[j].orig = Raise(Cancelled) /\ calls[j].result = Raise(Cancelled)

\* C5: when the original synchronous or asynchronous method returns a value,
\* the caller of the wrapper gets exactly that value.
C5_ReturnTransparency ==
    \A i \in DOMAIN calls :
        /\ Code(calls[i]) \in {"sync_wrapper", "async_wrapper"}
        /\ calls[i].orig.t = "return"
        => calls[i].result = Return(calls[i].orig.v)

\* C6, as claimed: whenever the awaited original call raises, the span's
\* error attribute is the error's string form, set before the span is closed,
\* no output attribute is set and the same error is re-raised.
C6_AsyncErrorRecorded ==
    \A i \in DOMAIN calls :
        Code(calls[i]) = "async_wrapper" /\ calls[i].orig.t = "raise" =>
            /\ HasAttr(SpanOf(calls[i]), "error")
            /\ Attr(SpanOf(calls[i]), "error") = PyStr(calls[i].orig.e.msg)
            /\ SetBeforeClose(SpanOf(calls[i]), "error")
            /\ ~HasAttr(SpanOf(calls[i]), "output")
            /\ calls[i].result = Raise(calls[i].orig.e)

\* C6, amended: that holds whenever the error raised is an instance of
\* Exception; an exception outside Exception (a cancellation) is re-raised
\* with neither error nor output set, and the span is closed.
C6_AsyncExceptionRecorded ==
    \A i \in DOMAIN calls :
        Code(calls[i]) = "async_wrapper" /\ calls[i].orig.t = "raise" =>
            /\ calls[i].result = Raise(calls[i].orig.e)
            /\ ~HasAttr(SpanOf(calls[i]), "output")
            /\ ClosedLast(SpanOf(calls[i]))
            /\ IF IsException(calls[i].orig.e)
               THEN /\ HasAttr(SpanOf(calls[i]), "error")
                    /\ Attr(SpanOf(calls[i]), "error") = PyStr(calls[i].orig.e.msg)
                    /\ SetBeforeClose(SpanOf(calls[i]), "error")
               ELSE ~HasAttr(SpanOf(calls[i]), "error")

C6_Witness ==
    \E i \in DOMAIN calls :
        /\ Code(calls[i]) = "async_wrapper"
        /\ calls[i].orig = Raise(NotFound)
        /\ calls[i].result = Raise(NotFound)
        /\ HasAttr(SpanOf(calls[i]), "error")
        /\ Attr(SpanOf(calls[i]), "error") = PyStr("not found")

(***************************************************************************)
(* Properties of the binder.                                               *)
(***************************************************************************)
Subclasses == 2..Len(classes)

\* the name begins with the internal-naming marker
IsInternalName(name) == Head(Chars(name)) = "_"

IsPlain(f) == f.method = 0 /\ f.code \in {"def", "async def", "async gen def"}

WrappersOf(g) == {w \in DOMAIN funcs : funcs[w].method = g}

\* a wrapper made by one trace_method call around a plain function that
\* nothing else wraps
WrappedOnce(fn) ==
    /\ IsWrapper(funcs[fn])
    /\ IsPlain(funcs[funcs[fn].method])
    /\ WrappersOf(funcs[fn].method) = {fn}
    /\ WrappersOf(fn) = {}

\* the function objects of class c: its members and what they wrap
OwnFunctions(c) ==
    LET ids == {classes[c].dict[i].v.fn : i \in DOMAIN classes[c].dict}
    IN (ids \cup {funcs[f].method : f \in ids}) \ {0}

\* every wrapper of class c was made before any function of a class declared
\* later existed: at the moment c was defined
WrappedAtDefinition ==
    \A c, d \in Subclasses :
        c < d => \A f \in OwnFunctions(c), g \in OwnFunctions(d) : f < g

\* what an inherited name resolves to is wrapped once, by the class declaring it
InheritedWrappedOnce ==
    \A c \in Subclasses, name \in MethodNames :
        LET m == getattr(classes, c, name)
        IN m.type = "function" /\ IsWrapper(funcs[m.fn]) => WrappedOnce(m.fn)

C8_InternalNeverWrapped ==
    /\ \A c \in DOMAIN classes : \A i \in DOMAIN classes[c].dict :
          LET e == classes[c].dict[i]
          IN IsInternalName(e.k) /\ e.v.type = "function" =>
                IsPlain(funcs[e.v.fn]) /\ WrappersOf(e.v.fn) = {}
    /\ \A i \in DOMAIN calls :
          IsInternalName(funcs[calls[i].fn].name) =>
              calls[i].span = 0 /\ ~Traced(calls[i])
    /\ \A k \in DOMAIN spans : ~IsInternalName(spans[k].name.meth)

\* an internal method declared on C, a subclass of subclass B, was called
C8_Witness ==
    \E i \in DOMAIN calls :
        /\ classes[calls[i].cls].base >= 2
        /\ DictHas(classes[calls[i].cls].dict, "_helper")
        /\ funcs[calls[i].fn].name = "_helper"
        /\ calls[i].result = Return(PyNone)

\* C9: when the base type had a hook of its own, every subclass declaration
\* runs it for the new subclass, with the declaration's keyword arguments,
\* before anything of the subclass is wrapped.
C9_PriorHookRunsForSubclass ==
    bound.installed /\ bound.original.custom =>
        \A c \in Subclasses :
            \E h \in DOMAIN hookCalls :
                /\ hookCalls[h].child = c
                /\ hookCalls[h].cls = c
                /\ hookCalls[h].kwargs = classes[c].kwargs
                /\ hookCalls[h].wrapped = 0

(***************************************************************************)
(* Properties of the argument mapping.                                     *)
(***************************************************************************)
\* the mapping whose string form the span holds as __args__
Recorded(call) == Attr(SpanOf(call), "__args__").items

\* the name the i-th positional argument is recorded under
PositionalName(call, i) ==
    LET param_names == funcs[funcs[call.fn].method].params
    IN IF i <= Len(param_names) THEN param_names[i] ELSE PositionName(i)

IsNamed(call, name) == \E j \in DOMAIN call.kwargs : call.kwargs[j].k = name

Holds(call, name, v) ==
    /\ DictHas(Recorded(call), PyStr(name))
    /\ DictGet(Recorded(call), PyStr(name)) = serialize_value(v).value

\* C10, as claimed: the recorded mapping holds every positional argument under
\* its parameter's name, or position_N past the parameters, and every named
\* argument under its name, each as serialized.
C10_ArgumentMapping ==
    \A c \in DOMAIN calls :
        calls[c].span # 0 =>
            /\ \A i \in DOMAIN calls[c].args :
                  Holds(calls[c], PositionalName(calls[c], i), calls[c].args[i])
            /\ \A j \in DOMAIN calls[c].kwargs :
                  Holds(calls[c], calls[c].kwargs[j].k, calls[c].kwargs[j].v)

\* C10, amended: a named argument whose name is also the name of a positional
\* argument replaces it; the mapping holds nothing else.
C10_ArgumentMappingNamedWins ==
    \A c \in DOMAIN calls :
        calls[c].span # 0 =>
            /\ \A i \in DOMAIN calls[c].args :
                  ~IsNamed(calls[c], PositionalName(calls[c], i)) =>
                      Holds(calls[c], PositionalName(calls[c], i), calls[c].args[i])
            /\ \A j \in DOMAIN calls[c].kwargs :
                  Holds(calls[c], calls[c].kwargs[j].k, calls[c].kwargs[j].v)
            /\ \A e \in DOMAIN Recorded(calls[c]) :
                  \/ \E i \in DOMAIN calls[c].args :
                        Recorded(calls[c])[e].k = PyStr(PositionalName(calls[c], i))
                  \/ \E j \in DOMAIN calls[c].kwargs :
                        Recorded(calls[c])[e].k = PyStr(calls[c].kwargs[j].k)

\* do_it(self, *args, **kw) called with three positional arguments and the
\* named b and c: five entries, the third positional one under position_3
C10_Witness ==
    \E c \in DOMAIN calls :
        /\ calls[c].span # 0
        /\ funcs[calls[c].fn].name = "do_it"
        /\ Len(calls[c].args) = 3
        /\ IsNamed(calls[c], "b") /\ IsNamed(calls[c], "c")
        /\ Holds(calls[c], "args", calls[c].args[1])
        /\ Holds(calls[c], "position_3", calls[c].args[3])
        /\ Holds(calls[c], "b", PyInt(7))
        /\ Holds(calls[c], "c", PyUUID("u-1"))
        /\ Len(Recorded(calls[c])) = 5

(***************************************************************************)
(* Properties of the span a wrapper opens.                                 *)
(***************************************************************************)
\* the body of the wrapper has run: a streaming call runs it at the consumer's
\* first request, and never if the consumer closes the stream before that;
\* every other call runs it at once
Started(call) ==
    /\ Traced(call)
    /\ call.pc # "created"
    /\ ~(call.result = Closed /\ call.span = 0)

\* the call-kind tag of a wrapper
KindTag(code) ==
    CASE code = "async_gen_wrapper" -> "async_generator"
      [] code = "async_wrapper" -> "async"
      [] OTHER -> "sync"

\* the span is named after the receiver's type and the method and was seeded
\* with the marker, the type name, the method name, the tag and the text of
\* the argument mapping
Describes(span, call) ==
    /\ span.name = SpanName(classes[call.cls].name, funcs[call.fn].name)
    /\ Len(span.attributes) >= 5
    /\ span.attributes[1] = Entry(PyStr("__autotraced__"), PyBool(TRUE))
    /\ span.attributes[2] = Entry(PyStr("__class__"), PyStr(classes[call.cls].name))
    /\ span.attributes[3] = Entry(PyStr("__method__"), PyStr(funcs[call.fn].name))
    /\ span.attributes[4] = Entry(PyStr("__type__"), PyStr(KindTag(Code(call))))
    /\ span.attributes[5].k = PyStr("__args__")
    /\ span.attributes[5].v.t = "str"

\* C11: every invocation of a wrapped method opens a span named
\* "<TypeName>.<methodName>" whose attributes start with the marker, the type
\* name, the method name, the call-kind tag and the string form of the
\* argument mapping.
C11_SpanOpenedWithDescriptor ==
    \A i \in DOMAIN calls :
        Started(calls[i]) =>
            /\ calls[i].span # 0
            /\ Describes(SpanOf(calls[i]), calls[i])

\* run(2, b=(3,)) on B returned (5,): the span B.run holds the descriptor, the
\* argument mapping {"a": 2, "b": [3]} and output [5]
C11_Witness ==
    \E i \in DOMAIN calls :
        /\ Code(calls[i]) = "sync_wrapper"
        /\ calls[i].result = Return(PyTuple(<<PyInt(5)>>))
        /\ Describes(SpanOf(calls[i]), calls[i])
        /\ SpanOf(calls[i]).name = SpanName("B", "run")
        /\ Recorded(calls[i]) =
              <<Entry(PyStr("a"), PyInt(2)), Entry(PyStr("b"), PyList(<<PyInt(3)>>))>>
        /\ Attr(SpanOf(calls[i]), "output") = PyList(<<PyInt(5)>>)

(***************************************************************************)
(* The binder and the wrappers together: subclasses are declared and their *)
(* methods of every calling convention are called.                         *)
(***************************************************************************)
\* the base type has no hook of its own
InitKind == InitBind /\ classes = Undecorated(FALSE).classes

NextKind ==
    \/ TraceProtocol
    \/ \E parent \in DOMAIN classes, body \in Bodies :
          DeclareSubclass(parent, body, <<>>)
    \/ \E c \in DOMAIN classes, name \in MethodNames :
          SyncCall(MaxProbes, c, name, NoArguments, Return(PyNone))
    \/ \E c \in DOMAIN classes, name \in MethodNames :
          AsyncStart(MaxProbes, c, name, NoArguments)
    \/ \E i \in DOMAIN calls : AsyncResume(i, Return(PyNone))
    \/ \E c \in DOMAIN classes, name \in MethodNames :
          GenCreate(MaxProbes, c, name, NoArguments)
    \/ \E i \in DOMAIN calls : GenNext(i)
    \/ \E i \in DOMAIN calls, out \in {Return(v) : v \in ItemValues} \cup {Stop} :
          GenItem(i, out)

SpecKind == InitKind /\ [][NextKind]_vars

\* the wrapper that goes with a calling convention
WrapperFor(code) ==
    CASE code = "async gen def" -> "async_gen_wrapper"
      [] code = "async def" -> "async_wrapper"
      [] OTHER -> "sync_wrapper"

\* the member is a wrapper, in the place of the function of the same name it
\* wraps, of the kind that goes with that function's calling convention
ReplacedByKind(e) ==
    /\ IsWrapper(funcs[e.v.fn])
    /\ IsPlain(funcs[funcs[e.v.fn].method])
    /\ funcs[funcs[e.v.fn].method].name = e.k
    /\ funcs[e.v.fn].code = WrapperFor(funcs[funcs[e.v.fn].method].code)
    /\ funcs[e.v.fn].is_async_gen = (funcs[e.v.fn].code = "async_gen_wrapper")

\* the tag of every span is that of the wrapper that opened it
TagIsWrapperKind ==
    \A k \in DOMAIN spans :
        /\ Traced(calls[spans[k].owner])
        /\ Attr(spans[k], "__type__") = PyStr(KindTag(Code(calls[spans[k].owner])))

UserId == PyUUID("u-1")

UserModel == PyModel(<<Entry(PyStr("id"), UserId)>>)

SerValues ==
    { PyNone, PyInt(2), PyStr("x"),
      PyDatetime("2024-01-01 00:00:00"),
      PyObject("<object>"),
      PyList(<<PyInt(1), UserId>>),
      PySet(<<PyInt(3)>>),
      PyDict(<<Entry(PyInt(1), PyStr("a")), Entry(PyStr("1"), UserId)>>),
      PyModel(<<Entry(PyStr("n"), PyInt(1)), Entry(PyStr("s"), PyList(<<PyStr("x")>>))>>),
      UserModel,
      PyModel(<<Entry(PyStr("at"), PyDatetime("2024-01-01 00:00:00")),
                Entry(PyStr("tags"), PySet(<<PyInt(3)>>))>>),
      PyModel(<<Entry(PyStr("owner"), UserModel)>>),
      PyList(<<UserModel>>),
      PySelfRefList,
      PyDict(<<Entry(PyStr("k"), PySelfRefList)>>),
      PyModel(<<Entry(PyStr("items"), PySelfRefList)>>) }

NextSer ==
    \E c \in DOMAIN classes, arg \in SerValues, result \in SerValues :
        SyncCall(MaxProbes, c, "run", Arguments(<<arg>>, <<>>), Return(result))

SpecSer == Init /\ [][NextSer]_vars

\* the value is JSON-compatible: null, bool, number, string, or an array or
\* an object with string keys of such values
RECURSIVE IsJSON(_)
IsJSON(value) ==
    \/ value.t \in {"NoneType", "bool", "int", "float", "str"}
    \/ /\ value.t = "list"
       /\ value # PySelfRefList
       /\ \A i \in DOMAIN value.items : IsJSON(value.items[i])
    \/ /\ value.t = "dict"
       /\ \A i \in DOMAIN value.items :
             value.items[i].k.t = "str" /\ IsJSON(value.items[i].v)

\* the values the serializer was given in a call: its argument and, when the
\* method was called and returned, the result
Serialized(call) ==
    {call.args[j] : j \in DOMAIN call.args}
        \cup (IF call.orig.t = "return" THEN {call.orig.v} ELSE {})

\* C13: for every model value, the serializer's result is the model's field
\* map with every field value serialized, and it is JSON-compatible.
C13_ModelExportSerialized ==
    \A i \in DOMAIN calls :
        calls[i].orig.t = "return" /\ calls[i].orig.v.t = "BaseModel" =>
            /\ HasAttr(SpanOf(calls[i]), "output")
            /\ Attr(SpanOf(calls[i]), "output")
                  = serialize_value(PyDict(calls[i].orig.v.items)).value
            /\ IsJSON(Attr(SpanOf(calls[i]), "output"))

\* C14: the serializer returns a result for every value it is given and
\* never raises.
C14_SerializeTotal ==
    \A i \in DOMAIN calls : \A v \in Serialized(calls[i]) : ~serialize_value(v).raised

(***************************************************************************)
(* Properties of the attribute writes.                                     *)
(***************************************************************************)
\* C15: a synchronous wrapper whose method returns sets output to the
\* serialized result before the span closes and returns the result; one whose
\* method raises propagates the same error, sets neither error nor output,
\* and closes the span.
C15_SyncOutputOrSilentError ==
    \A i \in DOMAIN calls :
        Code(calls[i]) = "sync_wrapper" =>
            /\ calls[i].orig.t = "return" =>
                  /\ calls[i].result = Return(calls[i].orig.v)
                  /\ HasAttr(SpanOf(calls[i]), "output")
                  /\ SetBeforeClose(SpanOf(calls[i]), "output")
                  /\ ClosedLast(SpanOf(calls[i]))
            /\ calls[i].orig.t = "raise" =>
                  /\ calls[i].result = Raise(calls[i].orig.e)
                  /\ ~HasAttr(SpanOf(calls[i]), "error")
                  /\ ~HasAttr(SpanOf(calls[i]), "output")
                  /\ ClosedLast(SpanOf(calls[i]))

\* both cases happened: a result recorded as output, and a domain error that
\* left a closed span with neither attribute
C15_Witness ==
    \E i, j \in DOMAIN calls :
        /\ Code(calls[i]) = "sync_wrapper" /\ Code(calls[j]) = "sync_wrapper"
        /\ calls[i].result = Return(PyTuple(<<PyInt(5)>>))
        /\ Attr(SpanOf(calls[i]), "output") = PyList(<<PyInt(5)>>)
        /\ calls[j].result = Raise(NotFound)
        /\ ~HasAttr(SpanOf(calls[j]), "error")
        /\ IsClosed(SpanOf(calls[j]))

\* the span shows one attempt to write chunk_count, made before the close
ChunkCountOnceBeforeClose(span) ==
    /\ Cardinality({e \in DOMAIN span.events :
                       span.events[e] = Event("set", "chunk_count")}) = 1
    /\ SetBeforeClose(span, "chunk_count")

\* C16: a stream whose underlying generator raises after the consumer received
\* k items leaves a closed span with chunk_count = k and raises the same error
\* to the consumer; every streaming call that has ended and had opened a span
\* wrote chunk_count exactly once, before the span was closed.
C16_ChunkCountOnStreamError ==
    \A i \in DOMAIN calls :
        Code(calls[i]) = "async_gen_wrapper" =>
            /\ calls[i].orig.t = "raise" =>
                  /\ calls[i].result = Raise(calls[i].orig.e)
                  /\ HasAttr(SpanOf(calls[i]), "chunk_count")
                  /\ Attr(SpanOf(calls[i]), "chunk_count") = PyInt(Len(calls[i].received))
                  /\ ChunkCountOnceBeforeClose(SpanOf(calls[i]))
                  /\ ClosedLast(SpanOf(calls[i]))
            /\ calls[i].pc = "done" /\ calls[i].span # 0 =>
                  ChunkCountOnceBeforeClose(SpanOf(calls[i]))
            /\ calls[i].pc # "done" /\ calls[i].span # 0 =>
                  ~HasAttr(SpanOf(calls[i]), "chunk_count")

\* the underlying generator raised after one item, and another one raised
\* before its first item
C16_Witness ==
    \E i, j \in DOMAIN calls :
        /\ Code(calls[i]) = "async_gen_wrapper" /\ calls[i].orig = Raise(NotFound)
        /\ Len(calls[i].received) = 1
        /\ Attr(SpanOf(calls[i]), "chunk_count") = PyInt(1)
        /\ Code(calls[j]) = "async_gen_wrapper" /\ calls[j].orig.t = "raise"
        /\ Len(calls[j].received) = 0
        /\ Attr(SpanOf(calls[j]), "chunk_count") = PyInt(0)

\* the attributes a wrapper writes after the call
LateKeys == {"output", "error", "chunk_count"}

\* the events of the span are: open, then writes of late keys, each key at
\* most once, then at most one close, which is the last event
WritesOrdered(span) ==
    /\ span.events[1] = Event("open", "")
    /\ \A e \in 2..Len(span.events) :
          \/ /\ span.events[e].op = "set"
             /\ span.events[e].key \in LateKeys
             /\ \A d \in 2..Len(span.events) :
                   span.events[d] = span.events[e] => d = e
          \/ span.events[e].op = "close" /\ e = Len(span.events)
    /\ Len(span.attributes) = 5 + Count(span.events, "set")

\* the original call of the invocation is over: it returned, raised, or the
\* stream ended or was closed
Completed(call) ==
    call.pc = "done" /\ (call.orig.t # "pending" \/ call.result = Closed)

\* no step changes a seeded attribute or anything of a closed span
SeedKeptAndClosedFrozen ==
    \A k \in DOMAIN spans :
        /\ SubSeq(spans'[k].attributes, 1, 5) = SubSeq(spans[k].attributes, 1, 5)
        /\ IsClosed(spans[k]) => spans'[k] = spans[k]

\* C17: the seeded attributes are fixed when the span is opened; the only
\* later writes are output, error and chunk_count, each at most once, after
\* the original call is over and before the span is closed; output and error
\* are never both set; a closed span is never written again.
C17_AttributeWritesOrdered ==
    /\ [](\A k \in DOMAIN spans :
             /\ Describes(spans[k], calls[spans[k].owner])
             /\ WritesOrdered(spans[k])
             /\ Count(spans[k].events, "set") > 0 => Completed(calls[spans[k].owner])
             /\ ~(HasAttr(spans[k], "output") /\ HasAttr(spans[k], "error")))
    /\ [][SeedKeptAndClosedFrozen]_vars

\* an asynchronous call has ended with its error written before the close
\* while a stream that has yielded an item is still open, unwritten
C17_Witness ==
    \E i, j \in DOMAIN calls :
        /\ Code(calls[i]) = "async_wrapper" /\ calls[i].span # 0
        /\ SpanOf(calls[i]).events =
              <<Event("open", ""), Event("set", "error"), Event("close", "")>>
        /\ Code(calls[j]) = "async_gen_wrapper" /\ calls[j].pc = "suspended"
        /\ Len(calls[j].received) = 1
        /\ SpanOf(calls[j]).events = <<Event("open", "")>>
        /\ Len(SpanOf(calls[j]).attributes) = 5

(***************************************************************************)
(* Properties of concurrent invocations.                                   *)
(***************************************************************************)
\* what the span of an invocation holds was written by that invocation: its
\* own result, its own error, its own count of its own items
OwnWrites(i) ==
    LET call == calls[i]
        span == spans[call.span]
    IN /\ span.owner = i
       /\ HasAttr(span, "output") =>
             /\ call.orig.t = "return"
             /\ Attr(span, "output") = serialize_value(call.orig.v).value
       /\ HasAttr(span, "error") =>
             Attr(span, "error") = PyStr(call.result.e.msg)
       /\ HasAttr(span, "chunk_count") =>
             /\ Attr(span, "chunk_count") = PyInt(call.count)
             /\ call.count <= Len(call.received)
             /\ call.count >= Len(call.received) - 1

\* a step is the step of one invocation: it changes no other invocation, and
\* the only span it opens or changes is that invocation's own; nothing else
\* the wrappers can reach changes
StepOfOneInvocation ==
    \E i \in DOMAIN calls' :
        /\ \A j \in DOMAIN calls : j # i => calls'[j] = calls[j]
        /\ \A k \in DOMAIN spans' :
              (k \notin DOMAIN spans \/ spans'[k] # spans[k]) => calls'[i].span = k
        /\ \A k \in DOMAIN spans : k \in DOMAIN spans'
        /\ UNCHANGED <<bound, classes, funcs, hookCalls>>

\* C18: under every interleaving of in-flight invocations each invocation has
\* a span of its own, every write lands on the span the same invocation
\* opened, each chunk_count counts that invocation's items only, and a step
\* of one invocation changes nothing of another.
C18_InvocationsIndependent ==
    /\ [](\A i \in DOMAIN calls :
             /\ calls[i].span # 0 => OwnWrites(i)
             /\ \A j \in DOMAIN calls :
                   i # j /\ calls[i].span # 0 => calls[i].span # calls[j].span)
    /\ [][StepOfOneInvocation]_vars

\* a stream was started first and is still suspended, with one item yielded,
\* while an asynchronous call made after it has failed and recorded its error
C18_Witness ==
    /\ Len(calls) = 2
    /\ Code(calls[1]) = "async_gen_wrapper" /\ calls[1].pc = "suspended"
    /\ Len(calls[1].received) = 1
    /\ ~IsClosed(SpanOf(calls[1]))
    /\ Code(calls[2]) = "async_wrapper" /\ calls[2].result = Raise(NotFound)
    /\ calls[2].span # 0 /\ calls[2].span # calls[1].span
    /\ Attr(SpanOf(calls[2]), "error") = PyStr("not found")
    /\ SpanOf(calls[1]).events = <<Event("open", "")>>

(***************************************************************************)
(* The wrappers over a tracing backend that can fail: each invocation is   *)
(* made with the set of backend operations that fail for it.               *)
(***************************************************************************)
FaultSets ==
    { {}, {"open"}, {"output"}, {"error"}, {"chunk_count"}, {"output", "error"} }

BackendResults == {Return(PyTuple(<<PyInt(5)>>)), Raise(NotFound), Raise(Cancelled)}

BackendOutputs == {Return(v) : v \in ItemValues} \cup {Stop, Raise(NotFound)}

FaultyCall(c, name, faults) ==
    [NewCall(c, getattr(classes, c, name).fn, <<>>, <<>>, "created")
        EXCEPT !.faults = faults]

SyncCallBackend(c, name, beh, faults) ==
    /\ Len(calls) < MaxProbes
    /\ Resolves(c, name, {"sync_wrapper"})
    /\ LET id == Len(calls) + 1
       IN Apply(id, sync_wrapper(FaultyCall(c, name, faults), id,
                                 classes, funcs, spans, beh))

AsyncStartBackend(c, name, faults) ==
    /\ Len(calls) < MaxProbes
    /\ Resolves(c, name, {"async_wrapper"})
    /\ LET id == Len(calls) + 1
       IN Apply(id, async_wrapper_start(FaultyCall(c, name, faults), id,
                                        classes, funcs, spans))

GenCreateBackend(c, name, faults) ==
    /\ Len(calls) < MaxProbes
    /\ Resolves(c, name, {"async_gen_wrapper"})
    /\ Apply(Len(calls) + 1, Step(FaultyCall(c, name, faults), spans))

NextBackend ==
    \/ \E c \in DOMAIN classes, name \in MethodNames, beh \in BackendResults,
          faults \in FaultSets : SyncCallBackend(c, name, beh, faults)
    \/ \E c \in DOMAIN classes, name \in MethodNames, faults \in FaultSets :
          AsyncStartBackend(c, name, faults)
    \/ \E i \in DOMAIN calls, beh \in BackendResults : AsyncResume(i, beh)
    \/ \E c \in DOMAIN classes, name \in MethodNames, faults \in FaultSets :
          GenCreateBackend(c, name, faults)
    \/ \E i \in DOMAIN calls : GenNext(i)
    \/ \E i \in DOMAIN calls, out \in BackendOutputs : GenItem(i, out)
    \/ \E i \in DOMAIN calls : GenClose(i)

SpecBackend == Init /\ [][NextBackend]_vars

\* the keys whose write failed on the span, in the order of the failures
FailedKeys(span) ==
    LET fails == SelectSeq(span.events, LAMBDA ev : ev.op = "fail")
    IN [f \in DOMAIN fails |-> fails[f].key]

\* opening the span failed: the error of the backend reaches the caller and
\* the original method was never executed
OpenFailurePropagates(call) ==
    "open" \in call.faults /\ call.pc = "done" /\ call.result # Closed =>
        /\ call.span = 0
        /\ call.orig = Pending
        /\ call.result = Raise(BackendError("open"))

\* C19, as claimed: a failure to open the span reaches the caller with the
\* method never executed, and the error of every failed attribute write
\* reaches the caller, not recorded on the span and not replaced.
C19_BackendErrorsUntouched ==
    \A i \in DOMAIN calls :
        /\ OpenFailurePropagates(calls[i])
        /\ calls[i].span # 0 =>
              \A f \in DOMAIN FailedKeys(SpanOf(calls[i])) :
                  /\ calls[i].result = Raise(BackendError(FailedKeys(SpanOf(calls[i]))[f]))
                  /\ ~HasAttr(SpanOf(calls[i]), "error")

\* C19, amended: a failure to open the span reaches the caller with the method
\* never executed; after a failed attribute write the caller gets the error of
\* the last failed write; the synchronous and the streaming wrapper record
\* nothing of it, the asynchronous wrapper records the error of a failed
\* output write as the span's error attribute unless that write fails too.
C19_BackendErrorsPropagate ==
    \A i \in DOMAIN calls :
        /\ OpenFailurePropagates(calls[i])
        /\ calls[i].span # 0 /\ FailedKeys(SpanOf(calls[i])) # <<>> =>
              LET span == SpanOf(calls[i])
                  failed == FailedKeys(span)
              IN /\ calls[i].result = Raise(BackendError(failed[Len(failed)]))
                 /\ IsClosed(span)
                 /\ IF Code(calls[i]) = "async_wrapper" /\ failed = <<"output">>
                    THEN /\ HasAttr(span, "error")
                         /\ Attr(span, "error") = PyStr(BackendError("output").msg)
                    ELSE ~HasAttr(span, "error")

\* the asynchronous method returned, writing output failed, and the wrapper
\* recorded that failure as the span's error and raised it
C19_Witness ==
    \E i \in DOMAIN calls :
        /\ Code(calls[i]) = "async_wrapper"
        /\ calls[i].orig = Return(PyTuple(<<PyInt(5)>>))
        /\ calls[i].result = Raise(BackendError("output"))
        /\ FailedKeys(SpanOf(calls[i])) = <<"output">>
        /\ Attr(SpanOf(calls[i]), "error") = PyStr("backend failure")
        /\ IsClosed(SpanOf(calls[i]))

(***************************************************************************)
(* The streaming wrapper over streams of distinct items: the consumer asks *)
(* for the next item (GenNext), the underlying generator answers (GenItem) *)
(* and the consumer may close the stream (GenClose).                       *)
(***************************************************************************)
StreamItems == {PyStr("chunk"), PyInt(1), PyTuple(<<PyInt(5)>>), PyNone}

StreamItemOutputs == {Return(v) : v \in StreamItems} \cup {Stop, Raise(NotFound)}

NextStream ==
    \/ \E c \in DOMAIN classes, name \in MethodNames :
          GenCreate(MaxProbes, c, name, NoArguments)
    \/ \E i \in DOMAIN calls : GenNext(i)
    \/ \E i \in DOMAIN calls, out \in StreamItemOutputs : GenItem(i, out)
    \/ \E i \in DOMAIN calls : GenClose(i)

SpecStream == Init /\ [][NextStream]_vars

\* where the streaming wrapper stands: not started, waiting for the underlying
\* generator's next item (line 87), at its yield (line 88), or finished; count
\* is behind the items yielded exactly while the wrapper is at its yield
StreamPosition(call) ==
    /\ call.pc \in {"created", "pulling", "suspended", "done"}
    /\ call.pc = "created" => call.yielded = <<>> /\ call.orig = Pending
    /\ call.pc = "pulling" => Len(call.yielded) = call.count
    /\ call.pc = "suspended" => Len(call.yielded) = call.count + 1
    /\ call.pc = "done" => Len(call.yielded) \in {call.count, call.count + 1}

\* one step of a stream: the underlying generator is advanced only while the
\* wrapper waits for it, by one item, which the consumer receives; and the
\* wrapper waits for it only after the consumer asked
StreamStep(old, new) ==
    /\ new.yielded # old.yielded =>
          /\ old.pc = "pulling" /\ new.pc = "suspended"
          /\ \E v \in StreamItems :
                /\ new.yielded = Append(old.yielded, v)
                /\ new.received = Append(old.received, v)
    /\ new.pc = "pulling" /\ old.pc # "pulling" => old.pc \in {"created", "suspended"}
    /\ old.pc = "suspended" /\ new.pc = "pulling" => new.yielded = old.yielded
    /\ old.pc = "done" => new = old

StreamSteps ==
    \A i \in DOMAIN calls :
        Code(calls[i]) = "async_gen_wrapper" =>
            /\ i \in DOMAIN calls'
            /\ StreamStep(calls[i], calls'[i])

\* C20: the consumer of a wrapped stream receives exactly the items the
\* underlying generator yielded, unchanged and in order; the underlying
\* generator is advanced by one item only after the consumer asked for one,
\* and the wrapper waits nowhere but for the underlying generator and at its
\* yield.
C20_StreamReyieldsOnDemand ==
    /\ [](\A i \in DOMAIN calls :
             Code(calls[i]) = "async_gen_wrapper" =>
                 /\ calls[i].received = calls[i].yielded
                 /\ StreamPosition(calls[i]))
    /\ [][StreamSteps]_vars

\* the consumer received two different items in the order the underlying
\* generator yielded them, and the stream then ended
C20_Witness ==
    \E i \in DOMAIN calls :
        /\ Code(calls[i]) = "async_gen_wrapper"
        /\ calls[i].yielded = <<PyTuple(<<PyInt(5)>>), PyInt(1)>>
        /\ calls[i].received = <<PyTuple(<<PyInt(5)>>), PyInt(1)>>
        /\ calls[i].result = Stop
        /\ Attr(SpanOf(calls[i]), "chunk_count") = PyInt(2)

====
